---------------------------- MODULE Spec2Model ----------------------------
(***************************************************************************)
(* NexusFlow ticket classification: the batch processor                    *)
(* (services/batch.py) and the classification pipeline                     *)
(* (agents/classification_agent.py) as state machines.                     *)
(*                                                                         *)
(* The batch processor runs on one asyncio event loop: a step of the model *)
(* is the code that runs between two suspension points (an await that      *)
(* really suspends: queue.get on an empty queue, classify_ticket, the      *)
(* callback POST).  emit_batch_event puts on unbounded queues and never    *)
(* suspends, so it is part of the step that calls it.                      *)
(***************************************************************************)
EXTENDS Integers, Sequences, FiniteSets, Bags, TLC

\* ------------------------------------------------------------------ bounds
MaxJobs == 2            \* BatchJob objects constructed in one behaviour
MaxTickets == 2         \* tickets per submission (the route accepts 1..1000)
MaxStarts == 2          \* times start_workers spawns a pool
MaxSubscribers == 1     \* subscriber queues registered at one time
NumCallerIds == 1       \* distinct caller-provided batch ids

\* The pool size W, the constructor argument of BatchProcessor (its default
\* is 3); the model is checked for small pools.
max_concurrent_batches == 1

\* ------------------------------------------------------------- batch state
VARIABLES
    jobs,             \* _jobs: batch id -> BatchJob object (0: no entry)
    heap,             \* every BatchJob object constructed so far
    queue,            \* _queue: FIFO of batch ids
    workers_running,  \* _workers_running
    workers,          \* the live _worker tasks: a bag of task states
    subscribers,      \* _event_subscribers: batch id -> list of queues
    ret,              \* what the last submit_batch / cancel_batch (or
                      \* evolve_from_correction) returned
    obs,              \* per BatchJob object: what has been done on its behalf
    starts            \* number of pools spawned by start_workers

\* ---------------------------------------------------------- pipeline state
VARIABLES
    pipe              \* one run of ClassificationAgent.classify

\* ----------------------------------------------------------- service state
VARIABLES
    svc               \* one call of ClassificationService.classify_ticket

\* ------------------------------------------------------------ stored state
VARIABLES
    graph,            \* the Neo4j graph: categories, CONTAINS, tickets
    hitldb,           \* the hitl_tasks and hitl_corrections tables and the
                      \* requests of api/routes/hitl.py in progress
    vectors,          \* the Milvus collection: the records of the tickets
    ticketdb          \* the tickets table

batchVars == <<jobs, heap, queue, workers_running, workers, subscribers, ret,
               obs, starts>>
\* Everything but the batch processor, the pipeline and both.
restVars == <<svc, graph, hitldb, vectors, ticketdb>>
notBatch == <<pipe, restVars>>
notPipe == <<batchVars, restVars>>
vars == <<batchVars, pipe, restVars>>

\* ----------------------------------------------------------------- values
CallerIds == {<<"caller", k>> : k \in 1..NumCallerIds}
GenId(k) == <<"uuid", k>>
BatchIds == CallerIds \cup {GenId(k) : k \in 1..MaxJobs}

PENDING == "pending"
PROCESSING == "processing"
COMPLETED == "completed"
FAILED == "failed"
CANCELLED == "cancelled"
BatchStatus == {PENDING, PROCESSING, COMPLETED, FAILED, CANCELLED}

NoResult == [total_tickets |-> 0, successful |-> 0, failed |-> 0,
             auto_resolved |-> 0, requires_hitl |-> 0, set |-> FALSE]

\* BatchJob.__init__
BatchJob(batch_id, n, callback_url) ==
    [batch_id |-> batch_id, tickets |-> n, callback_url |-> callback_url,
     status |-> PENDING, started_at |-> FALSE, completed_at |-> FALSE,
     result |-> NoResult, error |-> FALSE, progress |-> 0]

\* History of a BatchJob object: calls of emit_batch_event made for it (and
\* how many of them with a batch_completed or batch_failed event), calls of
\* classify_ticket on its tickets (and how many raised), callback POSTs
\* attempted, and entries into _process_batch.
NoObs == [emits |-> 0, terminal |-> 0, classify_calls |-> 0, raised |-> 0,
          callbacks |-> 0, runs |-> 0]

\* A _worker task: where it is suspended and the locals of _process_batch
\* (len(results) = i; the summary counts of results equal the running counts).
IdleWorker == [pc |-> "get", job |-> 0, i |-> 0, auto_resolved_count |-> 0,
               hitl_count |-> 0]

NoRet == [op |-> "none", value |-> FALSE]

\* ---------------------------------------------------- pipeline: the graph
\* _build_graph: the compiled StateGraph.
END == "__end__"
Nodes == {"extract_keywords", "query_graph", "search_vectors", "llm_judge",
          "calculate_confidence", "route_decision"}
EntryPoint == "extract_keywords"

Edges == { <<"extract_keywords", "query_graph">>,
           <<"query_graph", "search_vectors">>,
           <<"search_vectors", "llm_judge">>,
           <<"llm_judge", "calculate_confidence">>,
           <<"calculate_confidence", "route_decision">>,
           <<"route_decision", END>> }

\* The node the compiled graph runs after node n.
Successor(n) == CHOOSE m \in Nodes \cup {END} : <<n, m>> \in Edges

\* ------------------------------------------------ pipeline: the numbers
\* Confidences and scores are floats in [0, 1]; the model keeps them in
\* thousandths.  A category path is <<level1, level2, level3>>; None is the
\* missing prediction.
None == <<>>
Level(prediction, k) == IF prediction = None THEN "" ELSE prediction[k]

\* confidence.py: ConfidenceCalculator() is built with its defaults.
graph_weight == 350
vector_weight == 350
llm_weight == 300
platt_a == 1
platt_b == 0
\* config.py
classification_confidence_threshold == 700
hitl_threshold == 500

\* 1000 / (1 + exp(-k/100)) for k = 0..100, rounded.
SigmoidTable ==
    <<500, 502, 505, 507, 510, 512, 515, 517, 520, 522, 525, 527, 530, 532,
      535, 537, 540, 542, 545, 547, 550, 552, 555, 557, 560, 562, 565, 567,
      570, 572, 574, 577, 579, 582, 584, 587, 589, 591, 594, 596, 599, 601,
      603, 606, 608, 611, 613, 615, 618, 620, 622, 625, 627, 629, 632, 634,
      636, 639, 641, 643, 646, 648, 650, 652, 655, 657, 659, 662, 664, 666,
      668, 670, 673, 675, 677, 679, 681, 684, 686, 688, 690, 692, 694, 696,
      698, 701, 703, 705, 707, 709, 711, 713, 715, 717, 719, 721, 723, 725,
      727, 729, 731>>

\* _apply_platt_scaling: 1 / (1 + exp(-(a * score + b))); the scores of the
\* model are in 0..1000, the table's range.
apply_platt_scaling(score) ==
    LET exponent == platt_a * score + platt_b
    IN IF exponent > 100 * 1000 THEN 0
       ELSE IF exponent < -100 * 1000 THEN 1000
       ELSE SigmoidTable[(exponent \div 10) + 1]

\* _apply_temperature_scaling with calibration_temperature = 1.0: the early
\* return.
apply_temperature_scaling(score) == score

\* _calculate_level_agreement, in thirds: how many of the three values equal
\* the most common one.
calculate_level_agreement(values) ==
    LET Count(x) == Cardinality({k \in 1..3 : values[k] = x})
    IN CHOOSE c \in 1..3 :
          /\ \E k \in 1..3 : Count(values[k]) = c
          /\ \A k \in 1..3 : Count(values[k]) <= c

\* (an agreement without the hierarchical factors)
calculate_agreement_Flat(graph_pred, vector_pred, llm_pred) ==
    LET a(k) == calculate_level_agreement(
                    <<Level(graph_pred.prediction, k),
                      Level(vector_pred.prediction, k),
                      Level(llm_pred.prediction, k)>>)
    IN ((120 * a(1) + 105 * a(2) + 75 * a(3)) * 10) \div 9

\* _calculate_agreement:
\* 0.4 * l1 + 0.35 * l2 * l1 + 0.25 * l3 * l2, in thousandths.
calculate_agreement(graph_pred, vector_pred, llm_pred) ==
    LET a(k) == calculate_level_agreement(
                    <<Level(graph_pred.prediction, k),
                      Level(vector_pred.prediction, k),
                      Level(llm_pred.prediction, k)>>)
    IN ((120 * a(1) + 35 * a(2) * a(1) + 25 * a(3) * a(2)) * 10) \div 9

\* _get_majority_prediction, one level: the value with the largest sum of
\* weight * confidence, the first such in the order graph, vector, llm.
weighted_vote(graph_pred, vector_pred, llm_pred, k) ==
    LET preds == <<graph_pred, vector_pred, llm_pred>>
        weights == <<graph_weight, vector_weight, llm_weight>>
        value(j) == Level(preds[j].prediction, k)
        RECURSIVE Sum(_, _)
        Sum(x, j) == IF j = 0 THEN 0
                     ELSE Sum(x, j - 1) +
                          (IF value(j) = x
                           THEN weights[j] * preds[j].confidence ELSE 0)
        votes(j) == Sum(value(j), 3)
        best == CHOOSE j \in 1..3 :
                   /\ \A i \in 1..3 : votes(i) <= votes(j)
                   /\ \A i \in 1..(j - 1) : votes(i) < votes(j)
    IN value(best)

\* ComponentPrediction
ComponentPrediction(prediction, confidence) ==
    [prediction |-> prediction, confidence |-> confidence]

\* calculate_ensemble_confidence: the EnsembleResult.
calculate_ensemble_confidence(graph_pred, vector_pred, llm_pred) ==
    LET agreement == calculate_agreement(graph_pred, vector_pred, llm_pred)
        raw_score == (graph_weight * graph_pred.confidence
                      + vector_weight * vector_pred.confidence
                      + llm_weight * llm_pred.confidence) \div 1000
        agreement_adjusted == (raw_score * (700 + (300 * agreement) \div 1000))
                                  \div 1000
        calibrated == apply_temperature_scaling(
                          apply_platt_scaling(agreement_adjusted))
    IN [level1 |-> weighted_vote(graph_pred, vector_pred, llm_pred, 1),
        level2 |-> weighted_vote(graph_pred, vector_pred, llm_pred, 2),
        level3 |-> weighted_vote(graph_pred, vector_pred, llm_pred, 3),
        graph_confidence |-> graph_pred.confidence,
        vector_confidence |-> vector_pred.confidence,
        llm_confidence |-> llm_pred.confidence,
        raw_combined_score |-> raw_score,
        calibrated_score |-> calibrated,
        component_agreement |-> agreement]

\* EnsembleResult.is_high_confidence
is_high_confidence(ensemble) ==
    /\ ensemble.calibrated_score >= classification_confidence_threshold
    /\ ensemble.component_agreement >= 600

\* EnsembleResult.needs_review
needs_review(ensemble) ==
    \/ ensemble.calibrated_score < hitl_threshold
    \/ ensemble.component_agreement < 400

\* classify: the ClassificationState handed to graph.ainvoke.  Lists are
\* kept as "is it non-empty"; node is the graph's position, ran the nodes it
\* has invoked, result what classify returned.
initial_state ==
    [node |-> EntryPoint, ran |-> <<>>, current_step |-> "start",
     keywords |-> FALSE,
     graph_paths |-> FALSE, graph_prediction |-> None, graph_confidence |-> 0,
     vector_matches |-> FALSE, vector_prediction |-> None,
     vector_confidence |-> 0,
     llm_prediction |-> None, llm_confidence |-> 0,
     ensemble_result |-> None, final_classification |-> None,
     requires_hitl |-> FALSE, hitl_reason |-> None, errors |-> <<>>,
     result |-> None]

\* No classify call yet.
NoPipe == [initial_state EXCEPT !.node = "idle"]

\* ------------------------------------------------------------------ events
Event(type, o, index, total) ==
    [type |-> type, obj |-> o, ticket_index |-> index, total |-> total]

\* emit_batch_event: append to every queue subscribed to the batch id.
emit_batch_event(subs, batch_id, event) ==
    [subs EXCEPT ![batch_id] = [k \in DOMAIN @ |-> Append(@[k], event)]]

RECURSIVE EmitAll(_, _, _)
EmitAll(subs, batch_id, events) ==
    IF events = <<>> THEN subs
    ELSE EmitAll(emit_batch_event(subs, batch_id, Head(events)), batch_id,
                 Tail(events))

\* -------------------------------------------------------------------- Init
BatchInit ==
    /\ jobs = [id \in BatchIds |-> 0]
    /\ heap = <<>>
    /\ queue = <<>>
    /\ workers_running = FALSE
    /\ workers = EmptyBag
    /\ subscribers = [id \in BatchIds |-> <<>>]
    /\ ret = NoRet
    /\ obs = <<>>
    /\ starts = 0

\* The service before any classify_ticket call.
NoSvc == [pc |-> "idle", result |-> None, attempted |-> <<>>,
          done |-> {}, returned |-> None]

\* The category names of the graph, by level, and every CONTAINS edge there
\* can be between them.
Level1Names == {"Billing", "TS"}
Level2Names == {"Payments", "Auth"}
Level3Names == {"X", "Y"}
AllEdges == (Level1Names \X Level2Names) \cup (Level2Names \X Level3Names)
TicketIds == {"t1"}

\* The graph of a fresh database.  Weights are in hundredths, accuracies in
\* ten-thousandths; the numbers of a node or edge that does not exist are 0.
EmptyGraph ==
    [level1 |-> {}, level2 |-> {}, level3 |-> {},
     ticket_count |-> [n \in Level3Names |-> 0],
     accuracy |-> [n \in Level3Names |-> 0],
     contains |-> {},
     weight |-> [e \in AllEdges |-> 0],
     traversal_count |-> [e \in AllEdges |-> 0],
     tickets |-> {},
     classified_as |-> {},
     edited |-> {}]

MaxTasks == 1
MaxRequests == 2
MaxCorrections == 2

\* A request slot of the HITL routes with no request in it.
NoRequest == [op |-> "none", task |-> 0, pc |-> "idle", is_correct |-> FALSE,
              corrected |-> None, sent |-> FALSE]

\* The HITL tables of a fresh database, no request in progress.  A task is
\* identified by its position in tasks.
NoHitl == [tasks |-> <<>>, corrections |-> <<>>,
           requests |-> [r \in 1..MaxRequests |-> NoRequest]]

\* The tickets table of a fresh database: no row for any ticket id.
NoTickets == [t \in TicketIds |-> None]

RestInit ==
    /\ svc = NoSvc
    /\ graph = EmptyGraph
    /\ hitldb = NoHitl
    /\ vectors = {}
    /\ ticketdb = NoTickets

Init ==
    /\ BatchInit
    /\ pipe = NoPipe
    /\ RestInit

\* ------------------------------------------------------------ worker pool
\* start_workers: no-op when already running, else spawn W _worker tasks.
StartedPool ==
    IF workers_running THEN workers
    ELSE workers (+) [t \in {IdleWorker} |-> max_concurrent_batches]

StartedCount == IF workers_running THEN starts ELSE starts + 1

start_workers ==
    /\ ~workers_running
    /\ starts < MaxStarts
    /\ workers' = StartedPool
    /\ starts' = StartedCount
    /\ workers_running' = TRUE
    /\ UNCHANGED <<jobs, heap, queue, subscribers, ret, obs, notBatch>>

\* stop_workers only clears the flag; tasks notice at their next loop test.
stop_workers ==
    /\ workers_running
    /\ starts < MaxStarts
    /\ workers_running' = FALSE
    /\ UNCHANGED <<jobs, heap, queue, workers, subscribers, ret, obs, starts,
                   notBatch>>

\* ---------------------------------------------------------------- submit
submit_batch(provided, cid, n, callback_url) ==
    /\ Len(heap) < MaxJobs
    /\ workers_running \/ starts < MaxStarts
    /\ LET o == Len(heap) + 1
           batch_id == IF provided THEN cid ELSE GenId(o)
       IN /\ heap' = Append(heap, BatchJob(batch_id, n, callback_url))
          /\ obs' = Append(obs, NoObs)
          /\ jobs' = [jobs EXCEPT ![batch_id] = o]
          /\ queue' = Append(queue, batch_id)
          /\ ret' = [op |-> "submit_batch", value |-> batch_id]
    /\ workers' = StartedPool
    /\ starts' = StartedCount
    /\ workers_running' = TRUE
    /\ UNCHANGED <<subscribers, notBatch>>

\* ---------------------------------------------------------------- cancel
\* (a cancel that also takes running batches)
CancelAllowed_Running(status) == status \in {PENDING, PROCESSING}

\* cancel_batch: `if job.status == BatchStatus.PENDING`
CancelAllowed(status) == status = PENDING

cancel_batch(batch_id) ==
    /\ LET o == jobs[batch_id]
       IN IF o # 0 /\ CancelAllowed(heap[o].status)
          THEN /\ heap' = [heap EXCEPT ![o].status = CANCELLED]
               /\ ret' = [op |-> "cancel_batch", value |-> TRUE]
          ELSE /\ heap' = heap
               /\ ret' = [op |-> "cancel_batch", value |-> FALSE]
    /\ UNCHANGED <<jobs, queue, workers_running, workers, subscribers, obs,
                   starts, notBatch>>

\* ----------------------------------------------------------------- _worker
\* A task in state t moves to state u.
Moved(t, u) == (workers (-) SetToBag({t})) (+) SetToBag({u})

\* `while self._workers_running`, evaluated when a loop iteration ends: the
\* task waits in queue.get again, or returns and is gone.
LoopTest(t) ==
    IF workers_running THEN Moved(t, IdleWorker) ELSE workers (-) SetToBag({t})

\* (a worker that only skips unknown ids)
SkipJob_NoCancelTest(o) == o = 0

\* _worker: `if not job or job.status == CANCELLED: continue`
SkipJob(o) == o = 0 \/ heap[o].status = CANCELLED

\* queue.get() returns; the job is looked up and, unless skipped,
\* _process_batch runs up to its first suspension (classify_ticket of the
\* first ticket): status, started_at, batch_started, ticket_processing(1).
WorkerDequeue(t) ==
    /\ t.pc = "get"
    /\ queue # <<>>
    /\ LET batch_id == Head(queue)
           o == jobs[batch_id]
       IN /\ queue' = Tail(queue)
          /\ IF SkipJob(o)
             THEN /\ workers' = LoopTest(t)
                  /\ UNCHANGED <<heap, subscribers, obs>>
             ELSE /\ heap' = [heap EXCEPT ![o].status = PROCESSING,
                                          ![o].started_at = TRUE]
                  /\ subscribers' = EmitAll(subscribers, heap[o].batch_id,
                        << Event("batch_started", o, 0, heap[o].tickets),
                           Event("ticket_processing", o, 1, heap[o].tickets) >>)
                  /\ obs' = [obs EXCEPT ![o].emits = @ + 2,
                                        ![o].runs = @ + 1,
                                        ![o].classify_calls = @ + 1]
                  /\ workers' = Moved(t, [IdleWorker EXCEPT !.pc = "classify",
                                                            !.job = o])
    /\ UNCHANGED <<jobs, workers_running, ret, starts, notBatch>>

\* wait_for times out after 5 s on an empty queue: `continue`, loop test.
WorkerTimeout(t) ==
    /\ t.pc = "get"
    /\ queue = <<>>
    /\ ~workers_running
    /\ workers' = LoopTest(t)
    /\ UNCHANGED <<jobs, heap, queue, workers_running, subscribers, ret, obs,
                   starts, notBatch>>

\* int((i + 1) / total * 100)
Progress(done, total) == (done * 100) \div total

\* job.result of a batch whose loop ran to the end
BatchResult(total, auto_resolved, requires_hitl) ==
    [total_tickets |-> total, successful |-> total, failed |-> 0,
     auto_resolved |-> auto_resolved, requires_hitl |-> requires_hitl,
     set |-> TRUE]

\* classify_ticket raised: the except clause of _process_batch.
ClassifyRaised(t) ==
    LET o == t.job
    IN /\ heap' = [heap EXCEPT ![o].status = FAILED, ![o].error = TRUE,
                               ![o].completed_at = TRUE]
       /\ workers' = LoopTest(t)
       /\ obs' = [obs EXCEPT ![o].raised = @ + 1]
       /\ UNCHANGED subscribers

\* classify_ticket returned a result with routing `outcome`.
ClassifyReturned(t, outcome) ==
    LET o == t.job
        total == heap[o].tickets
        done == t.i + 1
        auto == t.auto_resolved_count + (IF outcome = "auto" THEN 1 ELSE 0)
        hitl == t.hitl_count + (IF outcome = "auto" THEN 0 ELSE 1)
        u == [t EXCEPT !.i = done, !.auto_resolved_count = auto,
                       !.hitl_count = hitl]
        classified == Event("ticket_classified", o, done, total)
    IN IF done < total
       THEN /\ heap' = [heap EXCEPT ![o].progress = Progress(done, total)]
            /\ subscribers' = EmitAll(subscribers, heap[o].batch_id,
                  << classified,
                     Event("ticket_processing", o, done + 1, total) >>)
            /\ obs' = [obs EXCEPT ![o].emits = @ + 2,
                                  ![o].classify_calls = @ + 1]
            /\ workers' = Moved(t, u)
       ELSE /\ heap' = [heap EXCEPT ![o].result = BatchResult(total, auto, hitl),
                                    ![o].status = COMPLETED,
                                    ![o].completed_at = TRUE,
                                    ![o].progress = 100]
            /\ subscribers' = EmitAll(subscribers, heap[o].batch_id,
                  << classified, Event("batch_completed", o, 0, total) >>)
            /\ IF heap[o].callback_url
               THEN /\ obs' = [obs EXCEPT ![o].emits = @ + 2,
                                          ![o].terminal = @ + 1,
                                          ![o].callbacks = @ + 1]
                    /\ workers' = Moved(t, [u EXCEPT !.pc = "callback"])
               ELSE /\ obs' = [obs EXCEPT ![o].emits = @ + 2,
                                          ![o].terminal = @ + 1]
                    /\ workers' = LoopTest(t)

\* One iteration of the ticket loop of _process_batch, from the return of
\* classify_ticket to the next suspension.
ClassifyStep(t, outcome) ==
    /\ t.pc = "classify"
    /\ IF outcome = "raise" THEN ClassifyRaised(t)
       ELSE ClassifyReturned(t, outcome)
    /\ UNCHANGED <<jobs, queue, workers_running, ret, starts, notBatch>>

\* _trigger_callback: the POST returned or raised; either way it is only
\* logged.  No custom handler is ever installed (set_callback_handler has no
\* caller), so the worker goes back to its loop test.
CallbackDone(t, delivered) ==
    /\ t.pc = "callback"
    /\ workers' = LoopTest(t)
    /\ UNCHANGED <<jobs, heap, queue, workers_running, subscribers, ret, obs,
                   starts, notBatch>>

\* ------------------------------------------------------------- streaming
SubscriberCount ==
    LET RECURSIVE Sum(_)
        Sum(S) == IF S = {} THEN 0
                  ELSE LET id == CHOOSE x \in S : TRUE
                       IN Len(subscribers[id]) + Sum(S \ {id})
    IN Sum(BatchIds)

subscribe_to_batch(batch_id) ==
    /\ SubscriberCount < MaxSubscribers
    /\ batch_id \in CallerIds \/ jobs[batch_id] # 0
    /\ subscribers' = [subscribers EXCEPT ![batch_id] = Append(@, <<>>)]
    /\ UNCHANGED <<jobs, heap, queue, workers_running, workers, ret, obs,
                   starts, notBatch>>

RemoveAt(seq, k) == [j \in 1..(Len(seq) - 1) |->
                        IF j < k THEN seq[j] ELSE seq[j + 1]]

\* stream_batch_events leaves its loop (terminal event or disconnect).
unsubscribe_from_batch(batch_id, k) ==
    /\ k \in DOMAIN subscribers[batch_id]
    /\ subscribers' = [subscribers EXCEPT ![batch_id] = RemoveAt(@, k)]
    /\ UNCHANGED <<jobs, heap, queue, workers_running, workers, ret, obs,
                   starts, notBatch>>

\* ---------------------------------------------------- pipeline: the run
\* graph.ainvoke after node n returned state: follow the edge out of n.
NodeReturned(n, state) ==
    pipe' = [state EXCEPT !.node = Successor(n), !.ran = Append(@, n)]

\* graph.ainvoke when node n raised: the exception leaves ainvoke and
\* classify re-raises it.
NodeRaised(n, state) ==
    pipe' = [state EXCEPT !.node = "raised", !.ran = Append(@, n)]

\* ClassificationAgent.classify up to the first node; _ensure_clients raises
\* when a client cannot be created.
classify(ensured) ==
    /\ pipe.node \in {"idle", "returned", "raised"}
    /\ pipe' = IF ensured THEN initial_state
               ELSE [NoPipe EXCEPT !.node = "raised"]
    /\ UNCHANGED notPipe

extract_keywords(outcome) ==
    /\ pipe.node = "extract_keywords"
    /\ LET state == [pipe EXCEPT !.current_step = "extract_keywords"]
       IN IF outcome = "raise"
          THEN NodeReturned("extract_keywords",
                   [state EXCEPT !.keywords = FALSE,
                                 !.errors = Append(@, "Keyword extraction")])
          ELSE NodeReturned("extract_keywords",
                   [state EXCEPT !.keywords = TRUE])
    /\ UNCHANGED notPipe

\* What a component call can hand back: a prediction with a confidence,
\* nothing, or an exception.
Paths == {<<"Billing", "Payments", "X">>, <<"TS", "Auth", "Y">>}
ConfidenceLevels == {500, 900}
\* A "confidence" in the LLM's JSON reply that is no number (a string, null).
NotNumber == 0 - 1
Found(kind, confidences) ==
    {[kind |-> kind, prediction |-> p, confidence |-> c] :
        p \in Paths, c \in confidences}
Failed(kind) == [kind |-> kind, prediction |-> None, confidence |-> 0]

query_graph(outcome) ==
    /\ pipe.node = "query_graph"
    /\ LET state == [pipe EXCEPT !.current_step = "query_graph"]
       IN CASE outcome.kind = "paths" ->
                 NodeReturned("query_graph",
                     [state EXCEPT !.graph_paths = TRUE,
                                   !.graph_prediction = outcome.prediction,
                                   !.graph_confidence = outcome.confidence])
            [] outcome.kind = "empty" ->
                 NodeReturned("query_graph",
                     [state EXCEPT !.graph_confidence = 0,
                                   !.errors = Append(@, "No graph paths found")])
            [] outcome.kind = "raise" ->
                 NodeReturned("query_graph",
                     [state EXCEPT !.errors = Append(@, "Graph query"),
                                   !.graph_confidence = 0])
    /\ UNCHANGED notPipe

search_vectors(outcome) ==
    /\ pipe.node = "search_vectors"
    /\ LET state == [pipe EXCEPT !.current_step = "search_vectors"]
       IN CASE outcome.kind = "matches" ->
                 NodeReturned("search_vectors",
                     [state EXCEPT !.vector_matches = TRUE,
                                   !.vector_prediction = outcome.prediction,
                                   !.vector_confidence = outcome.confidence])
            [] outcome.kind = "empty" ->
                 NodeReturned("search_vectors",
                     [state EXCEPT !.vector_confidence = 0])
            [] outcome.kind = "raise" ->
                 NodeReturned("search_vectors",
                     [state EXCEPT !.errors = Append(@, "Vector search"),
                                   !.vector_confidence = 0])
    /\ UNCHANGED notPipe

\* (an except clause that zeroes the confidence like the other stages)
llm_fallback_Zero(state) == [state EXCEPT !.llm_confidence = 0]

\* (a fallback that looks at the vector prediction first)
llm_fallback_VectorFirst(state) ==
    IF state.vector_prediction # None
    THEN [state EXCEPT !.llm_prediction = state.vector_prediction,
                       !.llm_confidence = (state.vector_confidence * 8) \div 10]
    ELSE IF state.graph_prediction # None
    THEN [state EXCEPT !.llm_prediction = state.graph_prediction,
                       !.llm_confidence = (state.graph_confidence * 8) \div 10]
    ELSE [state EXCEPT !.llm_confidence = 0]

\* The except clause of llm_judge: fall back to the graph or the vector
\* prediction.
llm_fallback(state) ==
    IF state.graph_prediction # None
    THEN [state EXCEPT !.llm_prediction = state.graph_prediction,
                       !.llm_confidence = (state.graph_confidence * 8) \div 10]
    ELSE IF state.vector_prediction # None
    THEN [state EXCEPT !.llm_prediction = state.vector_prediction,
                       !.llm_confidence = (state.vector_confidence * 8) \div 10]
    ELSE [state EXCEPT !.llm_confidence = 0]

\* outcome "json": the reply parses as JSON with level1..level3; result.get
\* returns its "confidence" as it is, a number or not.
llm_judge(outcome) ==
    /\ pipe.node = "llm_judge"
    /\ LET state == [pipe EXCEPT !.current_step = "llm_judge"]
       IN CASE outcome.kind = "json" ->
                 NodeReturned("llm_judge",
                     [state EXCEPT !.llm_prediction = outcome.prediction,
                                   !.llm_confidence = outcome.confidence])
            [] outcome.kind = "raise" ->
                 NodeReturned("llm_judge",
                     llm_fallback([state EXCEPT
                                      !.errors = Append(@, "LLM judgment")]))
    /\ UNCHANGED notPipe

\* calculate_ensemble_confidence multiplies the three confidences by the
\* weights, outside any try: a confidence that is not a number raises
\* TypeError.
calculate_confidence ==
    /\ pipe.node = "calculate_confidence"
    /\ LET state == [pipe EXCEPT !.current_step = "calculate_confidence"]
           ensemble == calculate_ensemble_confidence(
               ComponentPrediction(state.graph_prediction,
                                   state.graph_confidence),
               ComponentPrediction(state.vector_prediction,
                                   state.vector_confidence),
               ComponentPrediction(state.llm_prediction,
                                   state.llm_confidence))
       IN IF state.llm_confidence = NotNumber
          THEN NodeRaised("calculate_confidence", state)
          ELSE NodeReturned("calculate_confidence",
                   [state EXCEPT
                      !.ensemble_result = <<ensemble>>,
                      !.final_classification =
                          <<[level1 |-> ensemble.level1,
                             level2 |-> ensemble.level2,
                             level3 |-> ensemble.level3,
                             confidence |-> ensemble.calibrated_score]>>])
    /\ UNCHANGED notPipe

\* (a route_decision that asks for the agreement of is_high_confidence)
RouteReasons_Agreement600(calibrated_score, component_agreement, errors) ==
    (IF calibrated_score < classification_confidence_threshold
     THEN IF calibrated_score < hitl_threshold
          THEN <<"Very low confidence - escalation">>
          ELSE <<"Below auto-resolve threshold">>
     ELSE <<>>)
    \o (IF component_agreement < 600
        THEN <<"Low component agreement">> ELSE <<>>)
    \o (IF errors # <<>> THEN <<"Processing errors">> ELSE <<>>)

\* The reasons route_decision collects, in the order it tests them.
RouteReasons(calibrated_score, component_agreement, errors) ==
    (IF calibrated_score < classification_confidence_threshold
     THEN IF calibrated_score < hitl_threshold
          THEN <<"Very low confidence - escalation">>
          ELSE <<"Below auto-resolve threshold">>
     ELSE <<>>)
    \o (IF component_agreement < 400
        THEN <<"Low component agreement">> ELSE <<>>)
    \o (IF errors # <<>> THEN <<"Processing errors">> ELSE <<>>)

\* needs_hitl is set in the three tests that append a reason.
route_decision ==
    /\ pipe.node = "route_decision"
    /\ LET state == [pipe EXCEPT !.current_step = "route_decision"]
           ensemble == state.ensemble_result[1]
           reasons == RouteReasons(ensemble.calibrated_score,
                                   ensemble.component_agreement,
                                   state.errors)
           needs_hitl == reasons # <<>>
       IN NodeReturned("route_decision",
              [state EXCEPT !.requires_hitl = needs_hitl,
                            !.hitl_reason = IF needs_hitl THEN reasons
                                            ELSE None])
    /\ UNCHANGED notPipe

\* _format_result
FormatResult(state) ==
    [classification |-> state.final_classification[1],
     confidence |-> state.ensemble_result[1],
     routing |-> [requires_hitl |-> state.requires_hitl,
                  hitl_reason |-> state.hitl_reason,
                  auto_resolved |-> ~state.requires_hitl],
     errors |-> state.errors]

\* classify returns _format_result(final_state).
format_result ==
    /\ pipe.node = END
    /\ pipe' = [pipe EXCEPT !.node = "returned",
                            !.result = <<FormatResult(pipe)>>]
    /\ UNCHANGED notPipe

PipeNext ==
    \/ \E ensured \in BOOLEAN : classify(ensured)
    \/ \E outcome \in {"keywords", "raise"} : extract_keywords(outcome)
    \/ \E outcome \in Found("paths", ConfidenceLevels)
                        \cup {Failed("empty"), Failed("raise")} :
          query_graph(outcome)
    \/ \E outcome \in Found("matches", ConfidenceLevels)
                        \cup {Failed("empty"), Failed("raise")} :
          search_vectors(outcome)
    \/ \E outcome \in Found("json", ConfidenceLevels \cup {NotNumber})
                        \cup {Failed("raise")} :
          llm_judge(outcome)
    \/ calculate_confidence
    \/ route_decision
    \/ format_result

PipeSpec == Init /\ [][PipeNext]_vars

\* route_decision as a function of (calibrated, agreement, errors): a run
\* that stands before route_decision with an ensemble result of any score
\* and agreement around the thresholds, with or without recorded errors.
RouteScores == {0, 499, 500, 699, 700, 1000}
RouteAgreements == {200, 399, 400, 533, 1000}
RouteErrors == {<<>>, <<"Vector search">>}
BeforeRoute(calibrated, agreement, errors) ==
    [initial_state EXCEPT
       !.node = "route_decision",
       !.ran = <<"extract_keywords", "query_graph", "search_vectors",
                 "llm_judge", "calculate_confidence">>,
       !.current_step = "calculate_confidence",
       !.errors = errors,
       !.ensemble_result =
           <<[level1 |-> "TS", level2 |-> "Auth", level3 |-> "Y",
              graph_confidence |-> 0, vector_confidence |-> 0,
              llm_confidence |-> 0, raw_combined_score |-> 0,
              calibrated_score |-> calibrated,
              component_agreement |-> agreement]>>,
       !.final_classification =
           <<[level1 |-> "TS", level2 |-> "Auth", level3 |-> "Y",
              confidence |-> calibrated]>>]

RouteInit ==
    /\ BatchInit
    /\ RestInit
    /\ pipe \in {BeforeRoute(c, a, e) :
                    c \in RouteScores, a \in RouteAgreements, e \in RouteErrors}

RouteNext == route_decision \/ format_result

RouteSpec == RouteInit /\ [][RouteNext]_vars

\* The confidence calculator on its own: calculate_confidence, route_decision
\* and the formatting, from every combination of component predictions.
EnsemblePaths == {<<"Billing", "Payments", "X">>, <<"TS", "Auth", "Y">>,
                  <<"Account", "Profile", "Z">>, <<"Billing", "Auth", "Y">>}
EnsembleConfidences == {0, 500, 1000}

BeforeConfidence(graph_pred, vector_pred, llm_pred) ==
    [initial_state EXCEPT
       !.node = "calculate_confidence",
       !.ran = <<"extract_keywords", "query_graph", "search_vectors",
                 "llm_judge">>,
       !.current_step = "llm_judge",
       !.keywords = TRUE,
       !.graph_paths = graph_pred.prediction # None,
       !.graph_prediction = graph_pred.prediction,
       !.graph_confidence = graph_pred.confidence,
       !.vector_matches = vector_pred.prediction # None,
       !.vector_prediction = vector_pred.prediction,
       !.vector_confidence = vector_pred.confidence,
       !.llm_prediction = llm_pred.prediction,
       !.llm_confidence = llm_pred.confidence]

\* What a component hands over: a path with a confidence, or nothing with
\* confidence 0.
ComponentPredictions ==
    {ComponentPrediction(p, c) : p \in EnsemblePaths, c \in EnsembleConfidences}
        \cup {ComponentPrediction(None, 0)}

EnsembleInit ==
    /\ BatchInit
    /\ RestInit
    /\ pipe \in {BeforeConfidence(g, v, l) :
                    g \in ComponentPredictions, v \in ComponentPredictions,
                    l \in ComponentPredictions}

EnsembleNext == calculate_confidence \/ route_decision \/ format_result

EnsembleSpec == EnsembleInit /\ [][EnsembleNext]_vars

\* -------------------------------------------------------- the Neo4j graph
MaxTraversals == 3
MaxTicketCount == 2

\* ON CREATE SET of a category node.
NewAccuracy == 10000
\* ON CREATE SET of a CONTAINS edge.
NewWeight == 100
MinWeight == 10
MaxWeight == 200

\* MERGE of nodes and CONTAINS edges: what exists is left as it is, what is
\* new gets its ON CREATE values.
MergeCategories(g, l1s, l2s, l3s, edges) ==
    [g EXCEPT
       !.level1 = @ \cup l1s,
       !.level2 = @ \cup l2s,
       !.level3 = @ \cup l3s,
       !.accuracy = [n \in Level3Names |->
                       IF n \in l3s \ g.level3 THEN NewAccuracy ELSE @[n]],
       !.contains = @ \cup edges,
       !.weight = [e \in AllEdges |->
                     IF e \in edges \ g.contains THEN NewWeight ELSE @[e]]]

\* Neo4jClient.load_hierarchy for a hierarchy given as its set of paths.
LoadHierarchy(g, paths) ==
    MergeCategories(g, {p[1] : p \in paths}, {p[2] : p \in paths},
                    {p[3] : p \in paths},
                    {<<p[1], p[2]>> : p \in paths}
                        \cup {<<p[2], p[3]>> : p \in paths})

\* GraphEvolutionService.apply_expansion for one suggestion: a child of an
\* existing category of level 1 or 2; nothing when the parent is not there.
ApplyExpansion(g, category_name, level, name) ==
    IF level = 1 /\ category_name \in g.level1 /\ name \in Level2Names
    THEN MergeCategories(g, {}, {name}, {}, {<<category_name, name>>})
    ELSE IF level = 2 /\ category_name \in g.level2 /\ name \in Level3Names
    THEN MergeCategories(g, {}, {}, {name}, {<<category_name, name>>})
    ELSE g

\* (update_edge_weight without the CASE of its SET clause)
UpdateEdgeWeight_NoClamp(g, from_name, to_name, weight_delta) ==
    LET e == <<from_name, to_name>> IN
    IF e \in g.contains
    THEN [g EXCEPT !.weight[e] = @ + weight_delta,
                   !.traversal_count[e] = @ + 1]
    ELSE g

\* Neo4jClient.update_edge_weight; the MATCH finds nothing when the edge
\* does not exist.
UpdateEdgeWeight(g, from_name, to_name, weight_delta) ==
    LET e == <<from_name, to_name>> IN
    IF e \in g.contains
    THEN [g EXCEPT
            !.weight[e] = IF @ + weight_delta > MaxWeight THEN MaxWeight
                          ELSE IF @ + weight_delta < MinWeight THEN MinWeight
                          ELSE @ + weight_delta,
            !.traversal_count[e] = @ + 1]
    ELSE g

\* Neo4jClient.update_category_accuracy on a Level3Category: the moving
\* average with alpha = 0.1, and ticket_count + 1.
UpdateCategoryAccuracy(g, name, was_correct) ==
    IF name \in g.level3
    THEN [g EXCEPT
            !.accuracy[name] =
                (@ * 9) \div 10 + (IF was_correct THEN 1000 ELSE 0),
            !.ticket_count[name] = @ + 1]
    ELSE g

\* Neo4jClient.record_correction.
RecordCorrection(g, original_path, corrected_path) ==
    LET g1 == IF original_path[1] # corrected_path[1]
              THEN UpdateEdgeWeight(g, original_path[1], original_path[2],
                                    0 - 10)
              ELSE g
        g2 == IF original_path[2] # corrected_path[2]
              THEN UpdateEdgeWeight(g1, original_path[2], original_path[3],
                                    0 - 10)
              ELSE g1
        g3 == UpdateEdgeWeight(g2, corrected_path[1], corrected_path[2], 10)
        g4 == UpdateEdgeWeight(g3, corrected_path[2], corrected_path[3], 10)
        g5 == UpdateCategoryAccuracy(g4, original_path[3], FALSE)
    IN UpdateCategoryAccuracy(g5, corrected_path[3], TRUE)

\* Neo4jClient.add_ticket_to_graph: nothing without the Level3Category; the
\* ticket node and the CLASSIFIED_AS edge are merged, the edge keeps the
\* confidence it was created with, and ticket_count is set in every case.
AddTicketToGraph(g, ticket_id, level3_category, confidence) ==
    IF level3_category \in g.level3
    THEN [g EXCEPT
            !.tickets = @ \cup {ticket_id},
            !.classified_as =
                IF \E c \in @ : c.ticket = ticket_id /\ c.l3 = level3_category
                THEN @
                ELSE @ \cup {[ticket |-> ticket_id, l3 |-> level3_category,
                              confidence |-> confidence]},
            !.ticket_count[level3_category] = @ + 1]
    ELSE g

\* Neo4jClient.record_classification.
RecordClassification(g, ticket_id, level1, level2, level3, was_corrected) ==
    LET g1 == AddTicketToGraph(g, ticket_id, level3,
                               IF was_corrected THEN 800 ELSE 1000)
        g2 == IF was_corrected THEN UpdateCategoryAccuracy(g1, level3, TRUE)
              ELSE g1
        g3 == UpdateEdgeWeight(g2, level1, level2, 5)
    IN UpdateEdgeWeight(g3, level2, level3, 5)

\* The counters of the graph stay within the bounds of the model.
RECURSIVE SumOver(_, _)
SumOver(f, dom) ==
    IF dom = {} THEN 0
    ELSE LET x == CHOOSE x \in dom : TRUE IN f[x] + SumOver(f, dom \ {x})

WithinGraphBounds(g) ==
    /\ SumOver(g.traversal_count, AllEdges) <= MaxTraversals
    /\ SumOver(g.ticket_count, Level3Names) <= MaxTicketCount

notGraph == <<batchVars, pipe, svc, hitldb, vectors, ticketdb>>

GraphStep(g) ==
    /\ graph' = g
    /\ WithinGraphBounds(g)
    /\ UNCHANGED notGraph

\* The hierarchies that are loaded: the paths of a hierarchy file.
\* The paths that are classified or corrected to: the two of the hierarchy,
\* and one that differs from the first at level 3 only.
CategoryPaths == {<<"Billing", "Payments", "X">>, <<"TS", "Auth", "Y">>,
                  <<"Billing", "Payments", "Y">>}
\* The expansions that are applied: a third Level3Category under Payments,
\* and Payments as a child of TS as well.
Expansions == {<<"Payments", 2, "Y">>, <<"TS", 1, "Payments">>}
Hierarchies == {{<<"Billing", "Payments", "X">>, <<"TS", "Auth", "Y">>}}
Deltas == {0 - 150, 150}

load_hierarchy(hierarchy) == GraphStep(LoadHierarchy(graph, hierarchy))

apply_expansion(category_name, level, name) ==
    GraphStep(ApplyExpansion(graph, category_name, level, name))

update_edge_weight(from_name, to_name, weight_delta) ==
    GraphStep(UpdateEdgeWeight(graph, from_name, to_name, weight_delta))

record_correction(original_path, corrected_path) ==
    GraphStep(RecordCorrection(graph, original_path, corrected_path))

add_ticket_to_graph(ticket_id, level3_category) ==
    GraphStep(AddTicketToGraph(graph, ticket_id, level3_category, 900))

record_classification(ticket_id, path, was_corrected) ==
    GraphStep(RecordClassification(graph, ticket_id, path[1], path[2],
                                   path[3], was_corrected))

GraphNext ==
    \/ \E h \in Hierarchies : load_hierarchy(h)
    \/ \E x \in Expansions : apply_expansion(x[1], x[2], x[3])
    \/ \E e \in AllEdges, d \in Deltas : update_edge_weight(e[1], e[2], d)
    \/ \E o \in CategoryPaths, c \in CategoryPaths : record_correction(o, c)
    \/ \E t \in TicketIds, n \in Level3Names : add_ticket_to_graph(t, n)
    \/ \E t \in TicketIds, p \in CategoryPaths, was_corrected \in BOOLEAN :
          record_classification(t, p, was_corrected)

GraphSpec == Init /\ [][GraphNext]_vars

\* ------------------------------------------- evolution from a correction
\* A suggestion of the LLM reply: update_keywords and update_description
\* name a category and its level, add_category names a parent, its level
\* and the new child.  graph.edited is the set of <<type, level, name>> of
\* the categories whose keywords or description an evolution has SET.
Suggestions ==
    {[type |-> "update_keywords", level |-> 3, name |-> "X", new_name |-> ""],
     [type |-> "update_description", level |-> 2, name |-> "Payments",
      new_name |-> ""],
     [type |-> "add_category", level |-> 2, name |-> "Payments",
      new_name |-> "Y"]}

\* The "confidence" of a reply; 0 is also what .get gives without the key.
ReplyConfidences == {0, 799, 800}

\* What the LLM call gives: it raises, its content has no JSON object, or
\* the object with should_auto_apply (False without the key), confidence
\* and suggestions.
LlmReply(kind, should_auto_apply, confidence, suggestions) ==
    [kind |-> kind, should_auto_apply |-> should_auto_apply,
     confidence |-> confidence, suggestions |-> suggestions]
Replies ==
    {LlmReply("raised", FALSE, 0, {}), LlmReply("no_json", FALSE, 0, {})}
        \cup {LlmReply("json", a, c, ss) :
                 a \in BOOLEAN, c \in ReplyConfidences,
                 ss \in SUBSET Suggestions}

CategoriesAt(g, level) ==
    CASE level = 1 -> g.level1
      [] level = 2 -> g.level2
      [] level = 3 -> g.level3

\* The suggestions that _apply_evolution_suggestions has a branch for.
Updates(suggestions) ==
    {s \in suggestions : s.type \in {"update_keywords", "update_description"}}

\* MATCH (c:Level<n>Category {name}) SET ...: the categories that are there.
EditsOf(g, suggestions) ==
    {<<s.type, s.level, s.name>> : s \in
        {u \in Updates(suggestions) : u.name \in CategoriesAt(g, u.level)}}

\* (_apply_evolution_suggestions with a branch that merges the child of an
\* add_category suggestion)
ApplyEvolutionSuggestions_Structural(g, suggestions) ==
    LET adds == {s \in suggestions : s.type = "add_category"}
        g1 == [g EXCEPT !.edited = @ \cup EditsOf(g, suggestions)]
    IN  IF adds = {} THEN g1
        ELSE LET s == CHOOSE a \in adds : TRUE
             IN  ApplyExpansion(g1, s.name, s.level, s.new_name)

\* _apply_evolution_suggestions: the keywords or the description of the
\* target of every update_keywords and update_description suggestion; a
\* suggestion of any other type is passed over.
ApplyEvolutionSuggestions(g, suggestions) ==
    [g EXCEPT !.edited = @ \cup EditsOf(g, suggestions)]

\* The reply is applied by itself.
AutoApplied(reply) ==
    /\ reply.kind = "json"
    /\ reply.should_auto_apply
    /\ reply.confidence >= 800

\* The graph after evolve_from_correction: a JSON reply is applied or not
\* and the method returns; without one, record_correction.
EvolveFromCorrection(g, original_path, corrected_path, reply) ==
    IF reply.kind = "json"
    THEN IF AutoApplied(reply)
         THEN ApplyEvolutionSuggestions(g, reply.suggestions)
         ELSE g
    ELSE RecordCorrection(g, original_path, corrected_path)

\* What evolve_from_correction returns: the suggestions of the reply and
\* applied_changes, one entry for every update suggestion that got through
\* (with or without a matching category).
EvolveResult(reply) ==
    LET applied == IF AutoApplied(reply)
                   THEN {<<s.type, s.name>> : s \in Updates(reply.suggestions)}
                   ELSE {}
    IN  IF reply.kind = "json"
        THEN [suggestions |-> reply.suggestions,
              applied_changes |-> applied,
              graph_updated |-> applied # {}]
        ELSE [suggestions |-> {},
              applied_changes |-> {<<"edge_weights_updated", "">>},
              graph_updated |-> TRUE]

evolve_from_correction(original_path, corrected_path, reply) ==
    /\ ret' = [op |-> "evolve_from_correction", value |-> EvolveResult(reply)]
    /\ graph' = EvolveFromCorrection(graph, original_path, corrected_path,
                                     reply)
    /\ WithinGraphBounds(graph')
    /\ UNCHANGED <<jobs, heap, queue, workers_running, workers, subscribers,
                   obs, starts, pipe, svc, hitldb, vectors, ticketdb>>

\* The hierarchy of the evolution runs: one path, so that Y is a category
\* the graph does not have.
SmallHierarchies == {{<<"Billing", "Payments", "X">>}}

\* The corrections that are analysed: the corrected path differs.
CorrectionPairs ==
    {pair \in CategoryPaths \X CategoryPaths : pair[1] # pair[2]}

EvolveNext ==
    \/ \E h \in SmallHierarchies : load_hierarchy(h)
    \/ \E pair \in CorrectionPairs, reply \in Replies :
          evolve_from_correction(pair[1], pair[2], reply)

EvolveSpec == Init /\ [][EvolveNext]_vars

\* ------------------------------------------------- tickets and vectors
\* models/ticket.py TicketStatus: the values of the enum.
TicketStatus == {"new", "processing", "classified", "resolved",
                 "pending_review", "escalated", "closed"}

\* A row of the tickets table is <<[status, levels]>>, None without the row;
\* levels is the path of level1_category, level2_category, level3_category,
\* None while the three columns are NULL.
\* TicketRepository.create: TicketDB's defaults, status "new" and no levels.
CreateTicket(db, ticket_id) ==
    [db EXCEPT ![ticket_id] = <<[status |-> "new", levels |-> None]>>]

\* TicketRepository.update with a status only; no row, nothing written.
UpdateTicketStatus(db, ticket_id, status) ==
    IF db[ticket_id] = None THEN db
    ELSE [db EXCEPT ![ticket_id][1].status = status]

\* TicketRepository.update with the three levels and a status.
UpdateTicketLevels(db, ticket_id, path, status) ==
    IF db[ticket_id] = None THEN db
    ELSE [db EXCEPT ![ticket_id] = <<[status |-> status, levels |-> path]>>]

\* _persist_ticket: create, then update with the classification and the
\* status "resolved" or "pending".  create raises for an id that has a row,
\* and the except clause of the helper ends it there.
PersistTicket(db, ticket_id, path, auto_resolved) ==
    IF db[ticket_id] # None THEN db
    ELSE UpdateTicketLevels(CreateTicket(db, ticket_id), ticket_id, path,
                            IF auto_resolved THEN "resolved" ELSE "pending")

\* MilvusClient.insert_ticket: one more record in the collection.
InsertTicket(v, ticket_id, was_correct) ==
    v \cup {[id |-> ticket_id, was_correct |-> was_correct]}

\* _store_ticket_embedding calls insert_ticket without was_correct, which
\* defaults to True.
StoreTicketEmbedding(v, ticket_id) == InsertTicket(v, ticket_id, TRUE)

\* ---------------------------------------------------------- HITL review
notHitl == <<batchVars, pipe, svc, graph, vectors, ticketdb>>
Reviewer == "u1"
\* The ticket of every classify_ticket call and of every task.
TicketOfService == "t1"

\* HITLTaskRepository.create: a pending, unassigned task that carries the
\* AI classification of its ticket.
CreateTask(h, ai_path) ==
    [h EXCEPT !.tasks = Append(@, [status |-> "pending",
                                   assigned_to |-> None,
                                   ticket_id |-> TicketOfService,
                                   ai |-> ai_path])]

\* HITLTaskRepository.update of status and assignment.
UpdateTask(h, task_id, status, assigned_to) ==
    [h EXCEPT !.tasks[task_id].status = status,
              !.tasks[task_id].assigned_to = assigned_to]

Idle(r) == hitldb.requests[r] = NoRequest
AtStep(r, op, pc) ==
    /\ hitldb.requests[r].op = op
    /\ hitldb.requests[r].pc = pc

\* A task row is inserted (the last helper of classify_ticket, seen from the
\* HITL tables).
HITLTaskRepository_create(ai_path) ==
    /\ Len(hitldb.tasks) < MaxTasks
    /\ hitldb' = CreateTask(hitldb, ai_path)
    /\ UNCHANGED notHitl

\* The test a handler makes on the task it has read: assign_task,
\* unassign_task and submit_correction answer 400 for a completed task,
\* skip_task has no test.
Rejects(op, status) == op # "skip_task" /\ status = "completed"

\* The first await of every handler: HITLTaskRepository.get, 404 without the
\* task, then the handler's test on the status it has read.  A rejected
\* request changes nothing.
GetTask(r, op, task_id, is_correct, corrected_path, sent) ==
    /\ Idle(r)
    /\ task_id \in 1..Len(hitldb.tasks)
    /\ ~Rejects(op, hitldb.tasks[task_id].status)
    /\ hitldb' = [hitldb EXCEPT
                    !.requests[r] = [op |-> op, task |-> task_id,
                                     pc |-> "update",
                                     is_correct |-> is_correct,
                                     corrected |-> corrected_path,
                                     sent |-> sent]]
    /\ UNCHANGED notHitl

\* The handler returns: its slot is free again.
Return(h, r) == [h EXCEPT !.requests[r] = NoRequest]

assign_task(r, task_id) == GetTask(r, "assign_task", task_id, FALSE, None, FALSE)

\* assign_task after its read: HITLTaskRepository.assign.
assign_task_update(r) ==
    /\ AtStep(r, "assign_task", "update")
    /\ hitldb' = Return(UpdateTask(hitldb, hitldb.requests[r].task,
                                   "in_progress", <<Reviewer>>), r)
    /\ UNCHANGED notHitl

unassign_task(r, task_id) == GetTask(r, "unassign_task", task_id, FALSE, None, FALSE)

unassign_task_update(r) ==
    /\ AtStep(r, "unassign_task", "update")
    /\ hitldb' = Return(UpdateTask(hitldb, hitldb.requests[r].task,
                                   "pending", None), r)
    /\ UNCHANGED notHitl

skip_task(r, task_id) == GetTask(r, "skip_task", task_id, FALSE, None, FALSE)

skip_task_update(r) ==
    /\ AtStep(r, "skip_task", "update")
    /\ hitldb' = Return(UpdateTask(hitldb, hitldb.requests[r].task,
                                   "pending", None), r)
    /\ UNCHANGED notHitl

\* (is_correct taken from the body of the request)
IsCorrect_Sent(corrected_path, ai_path, sent) == sent

\* is_correct of submit_correction: the three corrected levels against the
\* three AI levels of the task; HITLCorrectionCreate.is_correct, which the
\* client sent, is not read.
IsCorrect(corrected_path, ai_path, sent) == corrected_path = ai_path

\* submit_correction up to is_correct.
submit_correction(r, task_id, corrected_path, sent) ==
    /\ task_id \in 1..Len(hitldb.tasks)
    /\ GetTask(r, "submit_correction", task_id,
               IsCorrect(corrected_path, hitldb.tasks[task_id].ai, sent),
               corrected_path, sent)

\* HITLCorrectionRepository.create: one more row, whatever rows there are.
submit_correction_create(r) ==
    /\ AtStep(r, "submit_correction", "update")
    /\ Len(hitldb.corrections) < MaxCorrections
    /\ hitldb' = [hitldb EXCEPT
                    !.corrections =
                        Append(@, [task_id |-> hitldb.requests[r].task,
                                   ticket_id |-> TicketOfService,
                                   original |->
                                       hitldb.tasks[hitldb.requests[r].task].ai,
                                   corrected |-> hitldb.requests[r].corrected,
                                   is_correct |-> hitldb.requests[r].is_correct]),
                    !.requests[r].pc = "complete"]
    /\ UNCHANGED notHitl

\* TicketRepository.update with the corrected levels and "resolved", then
\* HITLTaskRepository.complete.
submit_correction_complete(r) ==
    /\ AtStep(r, "submit_correction", "complete")
    /\ ticketdb' = UpdateTicketLevels(ticketdb, TicketOfService,
                                      hitldb.requests[r].corrected, "resolved")
    /\ hitldb' = [UpdateTask(hitldb, hitldb.requests[r].task, "completed",
                             hitldb.tasks[hitldb.requests[r].task].assigned_to)
                    EXCEPT !.requests[r].pc = "graph"]
    /\ UNCHANGED <<batchVars, pipe, svc, graph, vectors>>

\* The graph update of submit_correction.  Skipped for a correction that
\* is_correct.  For the others get_neo4j_client() is called without await,
\* so neo4j is a coroutine, neo4j.record_classification raises
\* AttributeError before any query is sent and the except clause logs it:
\* the graph is as it was.
SubmitCorrectionGraph(g, is_correct, ticket_id, corrected_path) == g

\* UserRepository.increment_reviews, then the graph update; the vector
\* store is not called.
submit_correction_graph(r) ==
    /\ AtStep(r, "submit_correction", "graph")
    /\ graph' = SubmitCorrectionGraph(graph, hitldb.requests[r].is_correct,
                                      TicketOfService,
                                      hitldb.requests[r].corrected)
    /\ hitldb' = Return(hitldb, r)
    /\ UNCHANGED <<batchVars, pipe, svc, vectors, ticketdb>>

\* A repository call of a request in progress raises: the request ends with
\* what it has written so far (every repository call commits by itself).
request_raises(r) ==
    /\ ~Idle(r)
    /\ hitldb' = Return(hitldb, r)
    /\ UNCHANGED notHitl

HitlNext ==
    \/ \E p \in CategoryPaths : HITLTaskRepository_create(p)
    \/ \E r \in 1..MaxRequests, t \in 1..MaxTasks : assign_task(r, t)
    \/ \E r \in 1..MaxRequests : assign_task_update(r)
    \/ \E r \in 1..MaxRequests, t \in 1..MaxTasks : unassign_task(r, t)
    \/ \E r \in 1..MaxRequests : unassign_task_update(r)
    \/ \E r \in 1..MaxRequests, t \in 1..MaxTasks : skip_task(r, t)
    \/ \E r \in 1..MaxRequests : skip_task_update(r)
    \/ \E r \in 1..MaxRequests, t \in 1..MaxTasks, p \in CategoryPaths,
          sent \in BOOLEAN :
          submit_correction(r, t, p, sent)
    \/ \E r \in 1..MaxRequests : submit_correction_create(r)
    \/ \E r \in 1..MaxRequests : submit_correction_complete(r)
    \/ \E r \in 1..MaxRequests : submit_correction_graph(r)
    \/ \E r \in 1..MaxRequests : request_raises(r)

HitlSpec == Init /\ [][HitlNext]_vars

\* The review requests over a database that has categories and vector
\* records: load_hierarchy as the startup of the application calls it, and
\* the vector record that _store_ticket_embedding writes for a ticket.
insert_ticket(ticket_id) ==
    /\ \A v \in vectors : v.id # ticket_id
    /\ vectors' = StoreTicketEmbedding(vectors, ticket_id)
    /\ UNCHANGED <<batchVars, pipe, svc, graph, hitldb, ticketdb>>

ReviewNext ==
    \/ HitlNext
    \/ \E h \in Hierarchies : load_hierarchy(h)
    \/ \E t \in TicketIds : insert_ticket(t)

ReviewSpec == Init /\ [][ReviewNext]_vars

\* -------------------------------------------------- the tickets table
notTickets == <<batchVars, pipe, svc, graph, hitldb, vectors>>

\* POST /tickets: TicketRepository.create under a fresh uuid.
create_ticket(ticket_id) ==
    /\ ticketdb[ticket_id] = None
    /\ ticketdb' = CreateTicket(ticketdb, ticket_id)
    /\ UNCHANGED notTickets

\* The rows that _persist_ticket writes for a classified ticket, seen from
\* the tickets table.
TicketRepository_persist(ticket_id, path, auto_resolved) ==
    /\ ticketdb[ticket_id] = None
    /\ ticketdb' = PersistTicket(ticketdb, ticket_id, path, auto_resolved)
    /\ UNCHANGED notTickets

\* PUT /tickets/{id}: 404 without the row; the status of the body is a
\* TicketStatus, and its value is written.
update_ticket(ticket_id, status) ==
    /\ ticketdb[ticket_id] # None
    /\ ticketdb' = UpdateTicketStatus(ticketdb, ticket_id, status)
    /\ UNCHANGED notTickets

\* DELETE /tickets/{id}, for a ticket that no HITL row refers to.
delete_ticket(ticket_id) ==
    /\ ticketdb[ticket_id] # None
    /\ hitldb.tasks = <<>>
    /\ hitldb.corrections = <<>>
    /\ ticketdb' = [ticketdb EXCEPT ![ticket_id] = None]
    /\ UNCHANGED notTickets

\* POST /tickets/{id}/resolve: 404 without the row, no other test.
resolve_ticket(ticket_id) ==
    /\ ticketdb[ticket_id] # None
    /\ ticketdb' = UpdateTicketStatus(ticketdb, ticket_id, "resolved")
    /\ UNCHANGED notTickets

\* POST /tickets/{id}/escalate.
escalate_ticket(ticket_id) ==
    /\ ticketdb[ticket_id] # None
    /\ ticketdb' = UpdateTicketStatus(ticketdb, ticket_id, "escalated")
    /\ UNCHANGED notTickets

TicketNext ==
    \/ \E t \in TicketIds : create_ticket(t)
    \/ \E t \in TicketIds, p \in CategoryPaths, auto_resolved \in BOOLEAN :
          TicketRepository_persist(t, p, auto_resolved)
    \/ \E t \in TicketIds, status \in TicketStatus : update_ticket(t, status)
    \/ \E t \in TicketIds : delete_ticket(t)
    \/ \E t \in TicketIds : resolve_ticket(t)
    \/ \E t \in TicketIds : escalate_ticket(t)
    \/ \E p \in CategoryPaths : HITLTaskRepository_create(p)
    \/ \E r \in 1..MaxRequests, t \in 1..MaxTasks, p \in CategoryPaths,
          sent \in BOOLEAN :
          submit_correction(r, t, p, sent)
    \/ \E r \in 1..MaxRequests : submit_correction_create(r)
    \/ \E r \in 1..MaxRequests : submit_correction_complete(r)
    \/ \E r \in 1..MaxRequests : submit_correction_graph(r)
    \/ \E r \in 1..MaxRequests : request_raises(r)

TicketSpec == Init /\ [][TicketNext]_vars

\* ------------------------------------------- the classification service
\* ClassificationService.classify_ticket: the agent's classify, then the
\* post-pipeline helpers one after the other.
notSvc == <<batchVars, graph, hitldb, vectors, ticketdb>>

\* classify_ticket up to the call of the agent; _ensure_services raises when
\* a client cannot be created.
classify_ticket(ensured) ==
    /\ svc.pc \in {"idle", "returned", "raised"}
    /\ svc' = [NoSvc EXCEPT !.pc = IF ensured THEN "agent" ELSE "raised"]
    /\ pipe' = NoPipe
    /\ UNCHANGED notSvc

\* self._agent.classify returned: result is bound.
AgentReturned ==
    /\ svc.pc = "agent"
    /\ pipe.node = "returned"
    /\ svc' = [svc EXCEPT !.result = pipe.result,
                          !.pc = "store_ticket_embedding"]
    /\ pipe' = NoPipe
    /\ UNCHANGED notSvc

\* self._agent.classify raised: classify_ticket has no handler.
AgentRaised ==
    /\ svc.pc = "agent"
    /\ pipe.node = "raised"
    /\ svc' = [svc EXCEPT !.pc = "raised"]
    /\ pipe' = NoPipe
    /\ UNCHANGED notSvc

\* What classify_ticket does after a helper: the next helper, the HITL task
\* only for a result that requires HITL (there is no needs_escalation key),
\* then return result.
AfterHelper(helper, result) ==
    CASE helper = "store_ticket_embedding" -> "update_graph"
      [] helper = "update_graph" -> "persist_ticket"
      [] helper = "persist_ticket" -> "record_metrics"
      [] helper = "record_metrics" ->
            IF result.routing.requires_hitl THEN "create_hitl_task"
            ELSE "returned"
      [] helper = "create_hitl_task" -> "returned"

\* (a helper without its except clause)
Helper_Propagates(helper, ok) ==
    /\ svc.pc = helper
    /\ LET next == IF ok THEN AfterHelper(helper, svc.result[1]) ELSE "raised"
       IN svc' = [svc EXCEPT
                    !.attempted = Append(@, helper),
                    !.done = IF ok THEN @ \cup {helper} ELSE @,
                    !.pc = next,
                    !.returned = IF next = "returned" THEN svc.result ELSE None]
    /\ UNCHANGED <<batchVars, pipe>>

\* A post-pipeline helper: its whole body is inside try / except Exception,
\* which logs a warning; ok tells whether the body got through.
Helper(helper, ok) ==
    /\ svc.pc = helper
    /\ LET next == AfterHelper(helper, svc.result[1])
       IN svc' = [svc EXCEPT
                    !.attempted = Append(@, helper),
                    !.done = IF ok THEN @ \cup {helper} ELSE @,
                    !.pc = next,
                    !.returned = IF next = "returned" THEN svc.result ELSE None]
    /\ UNCHANGED <<batchVars, pipe>>

\* _store_ticket_embedding: insert_ticket for the ticket of the call.
store_ticket_embedding(ok) ==
    /\ Helper("store_ticket_embedding", ok)
    /\ vectors' = IF ok THEN StoreTicketEmbedding(vectors, TicketOfService)
                  ELSE vectors
    /\ UNCHANGED <<graph, hitldb, ticketdb>>

\* _update_graph: add_ticket_to_graph with the level3 of the result.
update_graph(ok) ==
    /\ Helper("update_graph", ok)
    /\ graph' = IF ok
                THEN AddTicketToGraph(graph, TicketOfService,
                                      svc.result[1].classification.level3,
                                      svc.result[1].classification.confidence)
                ELSE graph
    /\ UNCHANGED <<hitldb, vectors, ticketdb>>

\* _persist_ticket: the row of the ticket with the classification of the
\* result; the body gets through only for an id that has no row yet.
persist_ticket(ok) ==
    /\ Helper("persist_ticket", ok)
    /\ ok => ticketdb[TicketOfService] = None
    /\ ticketdb' = IF ok
                   THEN PersistTicket(ticketdb, TicketOfService,
                                      <<svc.result[1].classification.level1,
                                        svc.result[1].classification.level2,
                                        svc.result[1].classification.level3>>,
                                      svc.result[1].routing.auto_resolved)
                   ELSE ticketdb
    /\ UNCHANGED <<graph, hitldb, vectors>>

record_metrics(ok) ==
    /\ Helper("record_metrics", ok)
    /\ UNCHANGED <<graph, hitldb, vectors, ticketdb>>

\* _create_hitl_task: HITLTaskRepository.create with the classification of
\* the result.
create_hitl_task(ok) ==
    /\ Helper("create_hitl_task", ok)
    /\ ok => Len(hitldb.tasks) < MaxTasks
    /\ hitldb' = IF ok
                 THEN CreateTask(hitldb,
                                 <<svc.result[1].classification.level1,
                                   svc.result[1].classification.level2,
                                   svc.result[1].classification.level3>>)
                 ELSE hitldb
    /\ UNCHANGED <<graph, vectors, ticketdb>>

ServiceNext ==
    \/ \E ensured \in BOOLEAN : classify_ticket(ensured)
    \/ /\ svc.pc = "agent"
       /\ pipe.node \notin {"returned", "raised"}
       /\ PipeNext
    \/ AgentReturned
    \/ AgentRaised
    \/ \E ok \in BOOLEAN : store_ticket_embedding(ok)
    \/ \E ok \in BOOLEAN : update_graph(ok)
    \/ \E ok \in BOOLEAN : persist_ticket(ok)
    \/ \E ok \in BOOLEAN : record_metrics(ok)
    \/ \E ok \in BOOLEAN : create_hitl_task(ok)

ServiceSpec == Init /\ [][ServiceNext]_vars

\* -------------------------------------------------------------------- Next
Outcomes == {"auto", "hitl", "raise"}

\* Calls on the BatchProcessor and the steps of its worker tasks.
ProcessorNext ==
    \/ start_workers
    \/ stop_workers
    \/ \E provided \in BOOLEAN, cid \in CallerIds, n \in 1..MaxTickets,
          callback_url \in BOOLEAN :
          submit_batch(provided, cid, n, callback_url)
    \/ \E batch_id \in BatchIds : cancel_batch(batch_id)
    \/ \E t \in BagToSet(workers) : WorkerDequeue(t)
    \/ \E t \in BagToSet(workers) : WorkerTimeout(t)
    \/ \E t \in BagToSet(workers), outcome \in Outcomes : ClassifyStep(t, outcome)
    \/ \E t \in BagToSet(workers), delivered \in BOOLEAN :
          CallbackDone(t, delivered)

\* Stream clients coming and going (routes/batch.py stream_batch_events).
StreamNext ==
    \/ \E batch_id \in BatchIds : subscribe_to_batch(batch_id)
    \/ \E batch_id \in BatchIds, k \in 1..MaxSubscribers :
          unsubscribe_from_batch(batch_id, k)

Next == ProcessorNext

Spec == Init /\ [][Next]_vars

StreamSpec == Init /\ [][ProcessorNext \/ StreamNext]_vars

\* The service while it runs: the pool is never stopped, every worker task
\* that can take a step eventually does, every classification and callback
\* POST returns or raises.
LiveNext ==
    \/ \E provided \in BOOLEAN, cid \in CallerIds, n \in 1..MaxTickets,
          callback_url \in BOOLEAN :
          submit_batch(provided, cid, n, callback_url)
    \/ \E batch_id \in BatchIds : cancel_batch(batch_id)
    \/ \E t \in BagToSet(workers) : WorkerDequeue(t)
    \/ \E t \in BagToSet(workers), outcome \in Outcomes : ClassifyStep(t, outcome)
    \/ \E t \in BagToSet(workers), delivered \in BOOLEAN :
          CallbackDone(t, delivered)

WorkerSteps ==
    \/ \E t \in BagToSet(workers) : WorkerDequeue(t)
    \/ \E t \in BagToSet(workers), outcome \in Outcomes : ClassifyStep(t, outcome)
    \/ \E t \in BagToSet(workers), delivered \in BOOLEAN :
          CallbackDone(t, delivered)

FairSpec == Init /\ [][LiveNext]_vars /\ WF_vars(WorkerSteps)

\* ======================================================================
\* Properties of the batch processor
\* ======================================================================
Objects == DOMAIN heap
Terminal == {COMPLETED, FAILED, CANCELLED}

\* get_batch_status(id)["status"], "none" when the id is unknown
StatusOf(id) == IF jobs[id] = 0 THEN "none" ELSE heap[jobs[id]].status

Lifecycle == { <<"none", PENDING>>, <<PENDING, PROCESSING>>,
               <<PENDING, CANCELLED>>, <<PROCESSING, COMPLETED>>,
               <<PROCESSING, FAILED>> }

\* C1: the status of a batch id only moves along pending -> processing,
\* pending -> cancelled, processing -> completed, processing -> failed, and
\* never changes once it is completed, failed or cancelled (batch ids may be
\* generated or caller-provided and reused).
C1_StatusLifecycle ==
    [][\A id \in BatchIds :
          StatusOf(id)' # StatusOf(id)
              => <<StatusOf(id), StatusOf(id)'>> \in Lifecycle]_vars

\* C2: cancel_batch(id) returns True and sets the status to cancelled exactly
\* when the job exists and is pending; in every other case (processing,
\* completed, failed, cancelled, unknown id) it returns False and changes no
\* field of any job; in both cases no worker is disturbed, so a batch that is
\* being processed keeps running.
C2_CancelOnlyPending ==
    [][\A id \in BatchIds :
          cancel_batch(id) =>
              /\ ret'.op = "cancel_batch"
              /\ IF jobs[id] # 0 /\ heap[jobs[id]].status = PENDING
                 THEN /\ ret'.value = TRUE
                      /\ heap'[jobs[id]].status = CANCELLED
                      /\ \A o \in Objects \ {jobs[id]} : heap'[o] = heap[o]
                      /\ heap'[jobs[id]] =
                             [heap[jobs[id]] EXCEPT !.status = CANCELLED]
                 ELSE /\ ret'.value = FALSE
                      /\ heap' = heap
              /\ workers' = workers
              /\ queue' = queue
              /\ jobs' = jobs]_vars

\* A cancel has just been refused for a batch that is being processed, after
\* another batch was cancelled while pending.
C2_Witness ==
    /\ ret = [op |-> "cancel_batch", value |-> FALSE]
    /\ \E o \in Objects : heap[o].status = CANCELLED
    /\ \E o \in Objects : /\ heap[o].status = PROCESSING
                          /\ \E t \in BagToSet(workers) : t.job = o

\* C3: a batch cancelled while pending is skipped by the worker that
\* dequeues its id: the cancelled job never enters processing (its status
\* stays cancelled), no ticket of it is classified, no event is emitted for
\* it, no callback is attempted and no worker holds it.
C3_CancelledNeverProcessed ==
    /\ [](\A o \in Objects :
            heap[o].status = CANCELLED =>
                /\ ~heap[o].started_at
                /\ heap[o].progress = 0
                /\ obs[o] = NoObs
                /\ \A t \in BagToSet(workers) : t.job # o)
    /\ [][\A o \in Objects :
            heap[o].status = CANCELLED => heap'[o].status = CANCELLED]_vars

\* A cancelled job whose queue entry a worker has already taken.
C3_Witness ==
    \E o \in Objects :
        /\ heap[o].status = CANCELLED
        /\ jobs[heap[o].batch_id] = o
        /\ \A k \in DOMAIN queue : queue[k] # heap[o].batch_id

\* What a stream client sees of an event: its type and ticket index.
Seen(q) == [k \in DOMAIN q |-> <<q[k].type, q[k].ticket_index>>]

\* The stream of a batch of n tickets that completes.
ExpectedStream(n) ==
    <<  <<"batch_started", 0>>  >>
    \o [k \in 1..(2 * n) |->
           IF k % 2 = 1 THEN <<"ticket_processing", (k + 1) \div 2>>
           ELSE <<"ticket_classified", k \div 2>>]
    \o <<  <<"batch_completed", 0>>  >>

\* Positions in queue q of the batch_started events of job o.
Starts(q, o) == {k \in DOMAIN q : q[k].type = "batch_started" /\ q[k].obj = o}

First(S) == CHOOSE k \in S : \A j \in S : k <= j
Last(S) == CHOOSE k \in S : \A j \in S : k >= j

\* The part of queue q between the first batch_started of job o and the
\* last event of job o.
StreamOf(q, o) ==
    SubSeq(q, First(Starts(q, o)), Last({k \in DOMAIN q : q[k].obj = o}))

\* C4: for a batch of N tickets that completes, a subscriber that was
\* subscribed before processing began has seen for it exactly batch_started,
\* then ticket_processing(i) immediately followed by ticket_classified(i)
\* for i = 1..N in order, then batch_completed.
C4_StreamOrder ==
    \A id \in BatchIds : \A k \in DOMAIN subscribers[id] : \A o \in Objects :
        LET q == subscribers[id][k]
        IN (heap[o].status = COMPLETED /\ Starts(q, o) # {})
           => Seen(StreamOf(q, o)) = ExpectedStream(heap[o].tickets)

TerminalEvents(q, o) ==
    {k \in DOMAIN q : /\ q[k].obj = o
                      /\ q[k].type \in {"batch_completed", "batch_failed"}}

\* C5: every batch that leaves processing has emitted exactly one terminal
\* event to the subscribers that saw it start: batch_completed when it ended
\* completed, batch_failed when it ended failed (so a stream consumer waiting
\* for either stops).
C5_OneTerminalEvent ==
    \A id \in BatchIds : \A k \in DOMAIN subscribers[id] : \A o \in Objects :
        LET q == subscribers[id][k]
        IN (heap[o].status \in {COMPLETED, FAILED} /\ Starts(q, o) # {})
           => /\ Cardinality(TerminalEvents(q, o)) = 1
              /\ \A j \in TerminalEvents(q, o) :
                    q[j].type = IF heap[o].status = COMPLETED
                                THEN "batch_completed" ELSE "batch_failed"

\* C6: when classify_ticket raises for a ticket of a batch, the batch keeps
\* going and ends completed, never failed; its result then counts the failed
\* tickets, successful + failed = total, and every ticket was tried.
C6_TicketFailureIsolated ==
    \A o \in Objects :
        obs[o].raised > 0 =>
            /\ heap[o].status \in {PROCESSING, COMPLETED}
            /\ heap[o].status = COMPLETED =>
                  /\ heap[o].result.failed = obs[o].raised
                  /\ heap[o].result.successful + heap[o].result.failed
                         = heap[o].result.total_tickets
                  /\ obs[o].classify_calls = heap[o].tickets

\* C7: for a batch submitted with a callback_url exactly one callback POST
\* has been attempted once it is completed or failed, and none while it is
\* pending, processing or cancelled; the outcome of the POST changes no job.
C7_OneCallback ==
    /\ [](\A o \in Objects :
             heap[o].callback_url =>
                 obs[o].callbacks =
                     IF heap[o].status \in {COMPLETED, FAILED} THEN 1 ELSE 0)
    /\ [][\A t \in BagToSet(workers), delivered \in BOOLEAN :
             CallbackDone(t, delivered) => heap' = heap]_vars

\* C8: at every moment at most max_concurrent_batches batches are in
\* processing status.
C8_BoundedParallelism ==
    Cardinality({id \in BatchIds : StatusOf(id) = PROCESSING})
        <= max_concurrent_batches

\* C9: every submitted batch that is not cancelled eventually reaches
\* completed or failed (under fair worker steps and terminating
\* classifications), and the queue is first-in first-out: it only grows at
\* its tail and shrinks at its head.
C9_EveryBatchFinishes ==
    /\ \A o \in 1..MaxJobs :
          (o \in Objects) ~> (o \in Objects /\ heap[o].status \in Terminal)
    /\ [][queue' # queue =>
             \/ queue # <<>> /\ queue' = Tail(queue)
             \/ \E id \in BatchIds : queue' = Append(queue, id)]_vars

\* C28: a worker starts _process_batch only for a job whose status is
\* pending and that has not been processed before, so no job is processed by
\* two workers or a second time, whether or not its batch id was submitted
\* again.
C28_ProcessedOnce ==
    [][\A o \in DOMAIN obs :
          obs'[o].runs > obs[o].runs =>
              /\ heap[o].status = PENDING
              /\ obs[o].runs = 0]_vars

\* ======================================================================
\* Properties of the classification pipeline
\* ======================================================================
StageOrder == <<"extract_keywords", "query_graph", "search_vectors",
                "llm_judge", "calculate_confidence", "route_decision">>

IsPrefix(s, t) == Len(s) <= Len(t) /\ s = SubSeq(t, 1, Len(s))

\* The graph never skips, repeats or reorders a stage: the stages run so far
\* are a prefix of the order, the graph stands at the next stage of the
\* order, and a classification that returns a result has run all six.
PipelineOrder ==
    /\ IsPrefix(pipe.ran, StageOrder)
    /\ pipe.node \in Nodes => pipe.node = StageOrder[Len(pipe.ran) + 1]
    /\ pipe.ran # <<>> /\ pipe.node # "raised"
          => pipe.current_step = pipe.ran[Len(pipe.ran)]
    /\ pipe.node \in {END, "returned"} => pipe.ran = StageOrder

\* C10: for every classification the six stages run exactly once each, in
\* the order extract_keywords, query_graph, search_vectors, llm_judge,
\* calculate_confidence, route_decision, whatever the earlier stages
\* produced: once a classification the graph started is over, the stages it
\* ran are exactly that sequence.
C10_SixStagesEveryClassification ==
    (pipe.node \in {"returned", "raised"} /\ pipe.ran # <<>>)
        => pipe.ran = StageOrder

\* The steps in which the component call of a stage raised.
KeywordsRaised == extract_keywords("raise")
GraphRaised == query_graph(Failed("raise"))
VectorRaised == search_vectors(Failed("raise"))
LlmRaised == llm_judge(Failed("raise"))
ComponentRaised == KeywordsRaised \/ GraphRaised \/ VectorRaised \/ LlmRaised

\* The confidence the fallback of llm_judge leaves.
FallbackConfidence(state) ==
    IF state.graph_prediction # None
    THEN (state.graph_confidence * 8) \div 10
    ELSE IF state.vector_prediction # None
    THEN (state.vector_confidence * 8) \div 10
    ELSE 0

C12_LlmFallback ==
    [][LlmRaised =>
         /\ pipe.graph_prediction # None =>
               /\ pipe'.llm_prediction = pipe.graph_prediction
               /\ 10 * pipe'.llm_confidence = 8 * pipe.graph_confidence
         /\ (pipe.graph_prediction = None /\ pipe.vector_prediction # None) =>
               /\ pipe'.llm_prediction = pipe.vector_prediction
               /\ 10 * pipe'.llm_confidence = 8 * pipe.vector_confidence
         /\ (pipe.graph_prediction = None /\ pipe.vector_prediction = None) =>
               /\ pipe'.llm_prediction = None
               /\ pipe'.llm_confidence = 0]_vars

\* The LLM call raised with no graph prediction and a vector prediction of
\* confidence 0.5: the run went on with the vector prediction at 0.4.
C12_Witness ==
    /\ pipe.node = "calculate_confidence"
    /\ pipe.errors = <<"No graph paths found", "LLM judgment">>
    /\ pipe.graph_prediction = None
    /\ pipe.vector_prediction # None
    /\ pipe.llm_prediction = pipe.vector_prediction
    /\ pipe.vector_confidence = 500
    /\ pipe.llm_confidence = 400

\* The three routing outcomes as the result carries them: auto-resolve is
\* requires_hitl = False; escalation is the HITL routing whose reason is
\* "Very low confidence ... - escalation"; review is every other HITL routing.
Range(seq) == {seq[k] : k \in DOMAIN seq}
RoutingOutcome(result) ==
    IF ~result.routing.requires_hitl THEN "auto-resolve"
    ELSE IF "Very low confidence - escalation"
                \in Range(result.routing.hitl_reason)
    THEN "escalate"
    ELSE "review"

C14_AllFailedEscalates ==
    (/\ pipe.node = "returned"
     /\ pipe.graph_prediction = None /\ pipe.graph_confidence = 0
     /\ pipe.vector_prediction = None /\ pipe.vector_confidence = 0
     /\ pipe.llm_prediction = None /\ pipe.llm_confidence = 0
     /\ {"Graph query", "Vector search", "LLM judgment"}
            \subseteq Range(pipe.errors))
    => /\ pipe.result[1].confidence.calibrated_score = 0
       /\ RoutingOutcome(pipe.result[1]) = "escalate"
       /\ pipe.result[1].routing.hitl_reason = <<"classification failed">>

\* ======================================================================
\* Properties of the classification service
\* ======================================================================
Helpers == <<"store_ticket_embedding", "update_graph", "persist_ticket",
             "record_metrics", "create_hitl_task">>

\* C15: once the pipeline has returned a result, classify_ticket never
\* raises and returns that same result whatever helpers fail; every helper
\* is attempted in order whether or not the earlier ones failed, and the
\* HITL task helper is attempted exactly when the result is not
\* auto-resolved.
C15_PersistenceNeverPropagates ==
    /\ svc.result # None => svc.pc # "raised"
    /\ IsPrefix(svc.attempted, Helpers)
    /\ svc.done \subseteq Range(svc.attempted)
    /\ svc.pc = "returned" =>
          /\ svc.returned = svc.result
          /\ svc.attempted =
                 IF svc.result[1].routing.auto_resolved
                 THEN SubSeq(Helpers, 1, 4) ELSE Helpers

\* classify_ticket returned a result that requires HITL although all five
\* helpers failed.
C15_Witness ==
    /\ svc.pc = "returned"
    /\ svc.returned = svc.result
    /\ svc.result[1].routing.requires_hitl
    /\ svc.attempted = Helpers
    /\ svc.done = {}

\* ======================================================================
\* Properties of the graph
\* ======================================================================
Clamp(w) == IF w > MaxWeight THEN MaxWeight
            ELSE IF w < MinWeight THEN MinWeight ELSE w

\* C16: update_edge_weight(from, to, delta) on an existing edge sets its
\* weight to clamp(old + delta, 0.1, 2.0), adds one to its traversal_count
\* and leaves the weight and traversal_count of every other edge alone; and
\* in every state reached by load_hierarchy, apply_expansion,
\* update_edge_weight, record_correction, record_classification and
\* add_ticket_to_graph every CONTAINS edge has a weight in [0.1, 2.0] (the
\* graph of a fresh database has no edge).
C16_EdgeWeightClamped ==
    [][/\ \A e \in graph'.contains :
             graph'.weight[e] >= MinWeight /\ graph'.weight[e] <= MaxWeight
       /\ \A e \in AllEdges, d \in Deltas :
            (e \in graph.contains /\ update_edge_weight(e[1], e[2], d)) =>
               /\ graph'.weight[e] = Clamp(graph.weight[e] + d)
               /\ graph'.traversal_count[e] = graph.traversal_count[e] + 1
               /\ \A f \in AllEdges \ {e} :
                     /\ graph'.weight[f] = graph.weight[f]
                     /\ graph'.traversal_count[f] = graph.traversal_count[f]
      ]_vars

\* One edge was pushed to the upper limit and another to the lower limit,
\* each by a single update.
C16_Witness ==
    \E e \in graph.contains, f \in graph.contains :
        /\ graph.weight[e] = MaxWeight /\ graph.traversal_count[e] = 1
        /\ graph.weight[f] = MinWeight /\ graph.traversal_count[f] = 1

ClassifiedTo(n) == {c \in graph.classified_as : c.l3 = n}
ClassifiedAsOf(t) == {c \in graph.classified_as : c.ticket = t}

\* C17: the ticket_count of every Level3Category is the number of distinct
\* CLASSIFIED_AS edges that point to it.
C17_TicketCountIsEdgeCount ==
    \A n \in graph.level3 :
        graph.ticket_count[n] = Cardinality(ClassifiedTo(n))

\* C18: every ticket node of the graph has exactly one CLASSIFIED_AS edge.
C18_ExactlyOneClassifiedAs ==
    \A t \in graph.tickets : Cardinality(ClassifiedAsOf(t)) = 1

PathEdges(path) == {<<path[1], path[2]>>, <<path[2], path[3]>>}
\* The edges of a path that touch its node of level k.
EdgesAtLevel(path, k) ==
    IF k = 1 THEN {<<path[1], path[2]>>}
    ELSE IF k = 2 THEN PathEdges(path)
    ELSE {<<path[2], path[3]>>}

\* C20: record_correction(original, corrected), on paths whose edges exist
\* and with no weight near a limit, changes only edges of the two paths;
\* every edge of the corrected path gets +0.1; at each level where the paths
\* differ an edge of the original path at that level gets -0.1 on top of
\* what it gets as an edge of the corrected path, and no edge gets -0.1 when
\* the paths are equal; the accuracy of the original L3 moves towards 0 and
\* that of the corrected L3 towards 1.
C20_RecordCorrectionDeltas ==
    [][\A o \in CategoryPaths, c \in CategoryPaths :
         ( /\ PathEdges(o) \cup PathEdges(c) \subseteq graph.contains
           /\ \A e \in PathEdges(o) \cup PathEdges(c) :
                 graph.weight[e] >= MinWeight + 20
                 /\ graph.weight[e] <= MaxWeight - 20
           /\ record_correction(o, c) ) =>
         LET change(e) == graph'.weight[e] - graph.weight[e]
             plus(e) == IF e \in PathEdges(c) THEN 10 ELSE 0
             penalised(e) == change(e) = plus(e) - 10
         IN /\ \A e \in AllEdges \ (PathEdges(o) \cup PathEdges(c)) :
                  change(e) = 0
            /\ \A e \in AllEdges : change(e) = plus(e) \/ penalised(e)
            /\ o = c => \A e \in AllEdges : ~penalised(e)
            /\ \A k \in 1..3 :
                  o[k] # c[k] => \E e \in EdgesAtLevel(o, k) : penalised(e)
            /\ o[3] # c[3] =>
                  /\ graph'.accuracy[o[3]] = (graph.accuracy[o[3]] * 9) \div 10
                  /\ graph'.accuracy[c[3]] =
                         (graph.accuracy[c[3]] * 9) \div 10 + 1000
      ]_vars

\* ======================================================================
\* Properties of HITL review
\* ======================================================================
CorrectionsOf(task_id) ==
    {i \in 1..Len(hitldb.corrections) :
        hitldb.corrections[i].task_id = task_id}

\* C19: every task whose status is completed has exactly one row in
\* hitl_corrections.
C19_OneCorrectionPerCompletedTask ==
    \A t \in 1..Len(hitldb.tasks) :
        hitldb.tasks[t].status = "completed" =>
            Cardinality(CorrectionsOf(t)) = 1

\* ======================================================================
\* Properties of the confidence calculator
\* ======================================================================
\* How many of three values carry the most common one.
ModalCount(v) ==
    IF v[1] = v[2] /\ v[2] = v[3] THEN 3
    ELSE IF v[1] = v[2] \/ v[2] = v[3] \/ v[1] = v[3] THEN 2
    ELSE 1

LevelValues(state, k) ==
    <<Level(state.graph_prediction, k), Level(state.vector_prediction, k),
      Level(state.llm_prediction, k)>>

Identical(state) == \A k \in 1..3 : ModalCount(LevelValues(state, k)) = 3
FullyDisagreeing(state) ==
    \A k \in 1..3 : ModalCount(LevelValues(state, k)) = 1

\* 9000 times 0.4*a1 + 0.35*a2*a1 + 0.25*a3*a2 for a_k = ModalCount / 3.
NineThousandAgreements(state) ==
    LET n(k) == ModalCount(LevelValues(state, k))
    IN 1200 * n(1) + 350 * n(2) * n(1) + 250 * n(3) * n(2)

C30_RoutingAgreesWithFlags ==
    pipe.node = "returned" =>
        LET result == pipe.result[1] IN
        /\ result.routing.auto_resolved => is_high_confidence(result.confidence)
        /\ needs_review(result.confidence) => ~result.routing.auto_resolved

\* C29: a task whose status is completed keeps its status and assignment
\* through every later step of assign_task, unassign_task, skip_task and
\* submit_correction.
C29_CompletedIsFinal ==
    [][\A t \in 1..Len(hitldb.tasks) :
          hitldb.tasks[t].status = "completed" =>
              hitldb'.tasks[t] = hitldb.tasks[t]]_vars

\* ------------------------------------------ Properties of the review flow
\* The correction row a submission has written and the task it is about.
AiPathOf(r) == hitldb.tasks[hitldb.requests[r].task].ai

\* C21: when a submitted correction differs from the AI classification of
\* its task, the submission applies record_correction to the graph with the
\* task's path as the original and the corrected path: the graph after the
\* graph step of the handler is RecordCorrection of the graph before it.
C21_CorrectionReachesGraph ==
    [][\A r \in 1..MaxRequests :
          (submit_correction_graph(r) /\ ~hitldb.requests[r].is_correct) =>
              graph' = RecordCorrection(graph, AiPathOf(r),
                                        hitldb.requests[r].corrected)]_vars

\* A step of request r of submit_correction.
StepOfSubmission(r) ==
    /\ hitldb.requests[r].op = "submit_correction"
    /\ hitldb'.requests[r] # hitldb.requests[r]

\* C22: the is_correct of every stored correction is true exactly when its
\* corrected levels are the AI levels of its task, whatever is_correct the
\* client sent, and no step of a submission that is_correct changes the
\* graph: edge weights, accuracies and ticket counts are as they were.
C22_IsCorrectIsComputed ==
    [][/\ \A i \in 1..Len(hitldb'.corrections) :
              LET c == hitldb'.corrections[i]
              IN  c.is_correct = (c.corrected = hitldb'.tasks[c.task_id].ai)
       /\ \A r \in 1..MaxRequests :
              (StepOfSubmission(r) /\ hitldb.requests[r].is_correct) =>
                  graph' = graph]_vars

\* A submission has stored is_correct = true for a task although the client
\* sent false, over a graph that has categories, and is about to return.
C22_Witness ==
    \E r \in 1..MaxRequests :
        /\ AtStep(r, "submit_correction", "graph")
        /\ hitldb.requests[r].is_correct
        /\ ~hitldb.requests[r].sent
        /\ graph.level3 # {}
        /\ \E i \in 1..Len(hitldb.corrections) :
              /\ hitldb.corrections[i].task_id = hitldb.requests[r].task
              /\ hitldb.corrections[i].is_correct

\* C23: a vector record has was_correct = true only if no correction that
\* is not is_correct exists for its ticket: when a submission that
\* contradicts the AI classification returns, every vector record of the
\* ticket has was_correct = false.
C23_ContradictedVectorIsMarked ==
    [][\A r \in 1..MaxRequests :
          (submit_correction_graph(r) /\ ~hitldb.requests[r].is_correct) =>
              \A v \in vectors' :
                  v.id = hitldb.tasks[hitldb.requests[r].task].ticket_id =>
                      ~v.was_correct]_vars

\* ------------------------------------- Properties of the tickets table
\* C24: every ticket row whose status is classified, resolved or
\* pending_review has its three levels, whatever sequence of create_ticket,
\* persistence by classify_ticket, resolve_ticket, update_ticket and
\* submit_correction has been executed.
C24_ClassifiedHasLevels ==
    \A t \in TicketIds :
        (/\ ticketdb[t] # None
         /\ ticketdb[t][1].status \in {"classified", "resolved",
                                        "pending_review"})
            => ticketdb[t][1].levels # None

\* C25: every status written to a ticket row is a value of TicketStatus.
C25_StatusInEnum ==
    \A t \in TicketIds :
        ticketdb[t] # None => ticketdb[t][1].status \in TicketStatus

=============================================================================
